---- MODULE Spec2Model ----
(***************************************************************************)
(* Calendar ingestion pipeline of calendar-insights (app-gcp):             *)
(*   calendar_service.py  GoogleCalendarService.authenticate, get_events,  *)
(*                        fetch_calendar_data                              *)
(*   dynamic_fetch.py     fetch_historical_data, fetch_incremental_data,   *)
(*                        store_meetings_data, main                        *)
(*   database.py          get_db_connection, init_database                 *)
(*   update_schema.py, init_db_standalone.py, cleanup_database.py and      *)
(*   app/init_db.py       the schema scripts                               *)
(* The meetings table is the committed content of the PostgreSQL table     *)
(* with the UNIQUE constraint on event_id.  Dates of the window loop are   *)
(* days relative to datetime.now(); event instants are counted in units of *)
(* 30 seconds.                                                             *)
(***************************************************************************)
EXTENDS Integers, Sequences, FiniteSets, TLC

\* ---------------------------------------------------------------- bounds
MaxBatch == 2        \* longest meetings_data batch, longest all_meetings
MaxEvents == 1       \* longest list of events get_events returns
MaxYears == 1        \* largest years_back
MaxDays == 1         \* largest days_back
MaxAttempts == 1     \* a window fetch raises only while current_batch is below it
MaxConcBatch == 2    \* longest batch of a concurrent store run
MaxRetries == 3      \* largest max_retries besides the default

\* ------------------------------------------------------ program constants
WindowDays == 31
DaysPerYear == 365
DefaultMaxRetries == 20
DefaultRetryDelay == 10

\* ------------------------------------------------------------ raw events
NoTime == -1         \* start/end carries neither dateTime nor date
BadTime == -2        \* a time string datetime.fromisoformat rejects
NoOrganizer == "<none>"
NullEmail == "<null>"

NoLink == ""         \* the event carries no hangoutLink

\* an item of the API's events list; conferenceData: its entryPoints
Ev(id, summary, start, end, organizer, attendees, hangoutLink, conferenceData) ==
    [id |-> id, summary |-> summary, start |-> start, end |-> end,
     organizer |-> organizer, attendees |-> attendees,
     hangoutLink |-> hangoutLink, conferenceData |-> conferenceData]

EntryPoint(entryPointType, uri) == [entryPointType |-> entryPointType, uri |-> uri]

\* The items the source can return.
Events ==
    { Ev("abc123", "Sync", 0, 60, "a@x.com", <<"accepted", "declined">>,
         "https://meet.google.com/abc", <<>>),
      Ev("abc123", "Sync (Rescheduled)", 7, 4, NoOrganizer,
         <<"accepted", "missing", "tentative">>, NoLink,
         <<EntryPoint("phone", "tel:+1-555"),
           EntryPoint("video", "https://meet.google.com/xyz")>>),
      Ev("evt2", "Standup", 5, 5, "a@x.com", <<"delegated">>, NoLink, <<>>),
      Ev("evt2", "No start", NoTime, 9, "a@x.com", <<>>, NoLink, <<>>),
      Ev("abc123", "Bad end", 2, BadTime, "a@x.com", <<>>, NoLink, <<>>) }

\* dict.get(key, default)
Get(d, key, default) == IF key \in DOMAIN d THEN d[key] ELSE default

\* the processed_event get_events builds from an item
ProcessedEvent(event) ==
    [id |-> event.id, summary |-> event.summary, start |-> event.start,
     end |-> event.end, organizer |-> event.organizer,
     attendees |-> event.attendees,
     hangout_link |-> event.hangoutLink,
     conference_data |-> event.conferenceData]

\* for entry in entry_points: the uri of the first video entry, else the
\* link as it was
RECURSIVE FirstVideoUri(_, _)
FirstVideoUri(entry_points, meet_link) ==
    IF entry_points = <<>> THEN meet_link
    ELSE IF Head(entry_points).entryPointType = "video"
         THEN Head(entry_points).uri
         ELSE FirstVideoUri(Tail(entry_points), meet_link)

\* meet_link of fetch_calendar_data, on a processed event
MeetLink(event) ==
    LET meet_link == Get(event, "hangoutLink", NoLink)
    IN  IF meet_link = NoLink /\ Get(event, "conferenceData", <<>>) # <<>>
        THEN FirstVideoUri(Get(event, "conferenceData", <<>>), meet_link)
        ELSE meet_link

BoundedSeq(S, n) == UNION { [1..k -> S] : k \in 0..n }

\* datetime.fromisoformat(s.replace('Z', '+00:00')): seconds of the instant
ParseTime(s) == s * 30

\* int(x / d) of Python: truncation toward zero
TruncDiv(x, d) == IF x >= 0 THEN x \div d ELSE -((-x) \div d)

\* floor division in place of int(): differs on negative differences
DurationMinutesFloor(start_dt, end_dt) == (end_dt - start_dt) \div 60

\* duration_minutes = int((end_dt - start_dt).total_seconds() / 60)
DurationMinutes(start_dt, end_dt) == TruncDiv(end_dt - start_dt, 60)

RECURSIVE CountStatus(_, _)
CountStatus(attendees, status) ==
    IF attendees = <<>> THEN 0
    ELSE (IF Head(attendees) = status THEN 1 ELSE 0)
         + CountStatus(Tail(attendees), status)

\* attendee.get('responseStatus', 'needsAction')
ResponseStatus(a) == IF a = "missing" THEN "needsAction" ELSE a

ResponseStatuses(attendees) ==
    [i \in 1..Len(attendees) |-> ResponseStatus(attendees[i])]

\* the loop body of fetch_calendar_data keeps the event
HasTimes(event) == event.start # NoTime /\ event.end # NoTime

Parses(event) == event.start # BadTime /\ event.end # BadTime

Kept(event) == HasTimes(event) /\ Parses(event)

\* the meeting_record of one kept event
MeetingRecord(event) ==
    LET start_dt == ParseTime(event.start)
        end_dt == ParseTime(event.end)
        st == ResponseStatuses(event.attendees)
        organizer_email == IF event.organizer = NoOrganizer
                           THEN "unknown@domain.com" ELSE event.organizer
    IN  [event_id |-> event.id,
         calendar_id |-> "primary",
         user_email |-> organizer_email,
         summary |-> event.summary,
         start_time |-> start_dt,
         end_time |-> end_dt,
         duration_minutes |-> DurationMinutes(start_dt, end_dt),
         attendees_count |-> Len(event.attendees),
         attendees_accepted |-> CountStatus(st, "accepted"),
         attendees_declined |-> CountStatus(st, "declined"),
         attendees_tentative |-> CountStatus(st, "tentative"),
         attendees_needs_action |-> CountStatus(st, "needsAction"),
         meet_link |-> MeetLink(event),
         is_one_on_one |-> (Len(event.attendees) = 2)]

RECURSIVE FetchCalendarData(_)
FetchCalendarData(events) ==
    IF events = <<>> THEN <<>>
    ELSE IF Kept(ProcessedEvent(Head(events)))
         THEN <<MeetingRecord(ProcessedEvent(Head(events)))>>
              \o FetchCalendarData(Tail(events))
         ELSE FetchCalendarData(Tail(events))

\* ------------------------------------------------------ the meetings table
\* Records store_meetings_data can be handed: the adapter's records and one
\* whose user_email is NULL (the column is NOT NULL).
Records ==
    { MeetingRecord(ProcessedEvent(e)) : e \in { x \in Events : Kept(x) } }
    \cup { [MeetingRecord(ProcessedEvent(e)) EXCEPT !.user_email = NullEmail] :
             e \in { x \in Events : Kept(x) /\ x.start = 5 } }

\* SELECT id FROM meetings WHERE event_id = %s ; fetchone()
ExistingNever(rows, event_id) == FALSE

Existing(rows, event_id) == \E i \in 1..Len(rows) : rows[i].event_id = event_id

\* UPDATE without its WHERE clause
UpdateMeetingEveryRow(rows, meeting) ==
    [i \in 1..Len(rows) |->
        [rows[i] EXCEPT !.summary = meeting.summary,
                        !.start_time = meeting.start_time,
                        !.end_time = meeting.end_time,
                        !.duration_minutes = meeting.duration_minutes,
                        !.attendees_count = meeting.attendees_count,
                        !.attendees_accepted = meeting.attendees_accepted,
                        !.attendees_declined = meeting.attendees_declined,
                        !.attendees_tentative = meeting.attendees_tentative,
                        !.attendees_needs_action = meeting.attendees_needs_action,
                        !.meet_link = meeting.meet_link]]

\* UPDATE meetings SET ... WHERE event_id = %s
UpdateMeeting(rows, meeting) ==
    [i \in 1..Len(rows) |->
        IF rows[i].event_id = meeting.event_id
        THEN [rows[i] EXCEPT !.summary = meeting.summary,
                             !.start_time = meeting.start_time,
                             !.end_time = meeting.end_time,
                             !.duration_minutes = meeting.duration_minutes,
                             !.attendees_count = meeting.attendees_count,
                             !.attendees_accepted = meeting.attendees_accepted,
                             !.attendees_declined = meeting.attendees_declined,
                             !.attendees_tentative = meeting.attendees_tentative,
                             !.attendees_needs_action = meeting.attendees_needs_action,
                             !.meet_link = meeting.meet_link]
        ELSE rows[i]]

\* the INSERT raises: a NOT NULL column is given NULL
InsertRaises(meeting) == meeting.user_email = NullEmail

\* an INSERT without the ON CONFLICT clause on a table without the constraint
ConflictIgnored(rows, meeting) == FALSE

\* ON CONFLICT (event_id) DO NOTHING: the unique constraint finds the key
Conflict(rows, meeting) ==
    \E i \in 1..Len(rows) : rows[i].event_id = meeting.event_id

\* the DELETE left out
ClearKeepsRows(rows, clear_existing) == rows

\* if clear_existing: DELETE FROM meetings
Cleared(rows, clear_existing) == IF clear_existing THEN <<>> ELSE rows

\* the record loop without 'else: skipped += 1' after the INSERT
ProcessMeetingConflictUncounted(tx, meeting, clear_existing) ==
    IF tx.aborted
    THEN [tx EXCEPT !.skipped = @ + 1]
    ELSE IF ~clear_existing /\ Existing(tx.rows, meeting.event_id)
    THEN [tx EXCEPT !.rows = UpdateMeeting(@, meeting), !.updated = @ + 1]
    ELSE IF InsertRaises(meeting)
    THEN [tx EXCEPT !.skipped = @ + 1, !.aborted = TRUE]
    ELSE IF Conflict(tx.rows, meeting)
    THEN tx
    ELSE [tx EXCEPT !.rows = Append(@, meeting), !.inserted = @ + 1]

\* One iteration of the record loop on the transaction's view tx of the table.
\* After a statement has failed the transaction is aborted and every later
\* statement of it raises, so every later record is skipped as well.
ProcessMeeting(tx, meeting, clear_existing) ==
    IF tx.aborted
    THEN [tx EXCEPT !.skipped = @ + 1]
    ELSE IF ~clear_existing /\ Existing(tx.rows, meeting.event_id)
    THEN [tx EXCEPT !.rows = UpdateMeeting(@, meeting), !.updated = @ + 1]
    ELSE IF InsertRaises(meeting)
    THEN [tx EXCEPT !.skipped = @ + 1, !.aborted = TRUE]
    ELSE IF Conflict(tx.rows, meeting)
    THEN [tx EXCEPT !.skipped = @ + 1]
    ELSE [tx EXCEPT !.rows = Append(@, meeting), !.inserted = @ + 1]

RECURSIVE ProcessMeetings(_, _, _)
ProcessMeetings(tx, meetings_data, clear_existing) ==
    IF meetings_data = <<>> THEN tx
    ELSE ProcessMeetings(ProcessMeeting(tx, Head(meetings_data), clear_existing),
                         Tail(meetings_data), clear_existing)

\* store_meetings_data on the committed table rows.  connects: get_db_connection
\* yields a connection.  conn.commit() of an aborted transaction rolls back.
StoreMeetingsData(rows, meetings_data, clear_existing, connects) ==
    IF ~connects
    THEN [rows |-> rows, ok |-> FALSE, inserted |-> 0, updated |-> 0,
          skipped |-> 0, aborted |-> FALSE]
    ELSE LET tx == ProcessMeetings(
                     [rows |-> Cleared(rows, clear_existing), inserted |-> 0,
                      updated |-> 0, skipped |-> 0, aborted |-> FALSE],
                     meetings_data, clear_existing)
         IN  [rows |-> IF tx.aborted THEN rows ELSE tx.rows,
              ok |-> TRUE, inserted |-> tx.inserted, updated |-> tx.updated,
              skipped |-> tx.skipped, aborted |-> tx.aborted]

\* ------------------------------------------------------------------ state
VARIABLES
    meetings,       \* committed rows of the meetings table, in insertion order
    last,           \* the last completed fetch/store call: its arguments, the
                    \* row count before it and what it returned and counted
    hpc,            \* fetch_historical_data: "idle" or "loop"
    start_date,     \* fetch_historical_data locals
    end_date,
    current_start,
    current_end,
    current_batch,
    all_meetings,
    window,         \* the (current_start, current_end) of the latest iteration
    fetch_raised,   \* the latest iteration's fetch raised
    cli,            \* main(): the invocation and its exit code
    runs,           \* two concurrent store_meetings_data runs: each one's
                    \* position, remaining records, uncommitted writes, counters
                    \* and the event_ids whose INSERT it has executed
    conn,           \* get_db_connection: its retry loop
    svc,            \* a GoogleCalendarService object and its last call
    schema,         \* the committed schema of the database
    ddl,            \* the last schema operation: the schema before it, what
                    \* it returned and the DDL error it met
    stx             \* a store_meetings_data call step by step: its position,
                    \* its transaction's view of the table and its counters

vars == <<meetings, last, hpc, start_date, end_date, current_start, current_end,
          current_batch, all_meetings, window, fetch_raised, cli, runs, conn,
          svc, schema, ddl, stx>>

xvars == <<svc, schema, ddl, stx>>

ovars == <<runs, conn, xvars>>

hvars == <<hpc, start_date, end_date, current_start, current_end,
           current_batch, all_meetings, window, fetch_raised>>

NoWindow == <<1, 1>>

NoCall ==
    [op |-> "none", arg |-> 0, batch |-> <<>>, rows_before |-> 0, ok |-> FALSE,
     stored |-> FALSE, inserted |-> 0, updated |-> 0, skipped |-> 0,
     aborted |-> FALSE, repeat |-> FALSE, auth |-> TRUE, fetches |-> 0]

NoCli == [pc |-> "start", flag |-> "none", unset |-> {}, missing_vars |-> {},
          would_succeed |-> FALSE, call |-> "none", windowing |-> "none",
          clear_existing |-> "none", diagnostic |-> "", named |-> {},
          exit |-> -1]

Procs == {1, 2}

NoRun == [pc |-> "idle", todo |-> <<>>, ins |-> <<>>, upd |-> <<>>,
          inserted |-> 0, updated |-> 0, skipped |-> 0, aborted |-> FALSE,
          keys |-> {}]

NoConn == [pc |-> "idle", max_retries |-> 0, retry_delay |-> 0, retries |-> 0,
           attempts |-> 0, slept |-> 0, error |-> "none", open |-> 0]

\* no credential is held
None == [none |-> TRUE]

\* GoogleCalendarService.__init__
NoService == [credentials |-> None, service |-> "None", _authenticated |-> FALSE,
              call |-> "none", returned |-> "none", events |-> <<>>,
              raised |-> FALSE, token |-> [file |-> "absent"], refreshed |-> FALSE,
              token_file |-> [file |-> "absent"]]

\* a database without tables
NoSchema == [meetings |-> FALSE, event_id |-> FALSE, constraints |-> {},
             indexes |-> {}, users |-> FALSE, fetch_history |-> FALSE]

\* no schema operation has run
NoDdl == [op |-> "none", returned |-> "none", failed |-> FALSE]

\* no store_meetings_data call is running
NoTx == [pc |-> "idle", clear_existing |-> FALSE, batch |-> <<>>, todo |-> <<>>,
         before |-> <<>>,
         tx |-> [rows |-> <<>>, inserted |-> 0, updated |-> 0, skipped |-> 0,
                 aborted |-> FALSE],
         returned |-> "none", committed |-> FALSE]

HistIdle ==
    /\ hpc' = "idle"
    /\ start_date' = 0
    /\ end_date' = 0
    /\ current_start' = 0
    /\ current_end' = 0
    /\ current_batch' = 0
    /\ all_meetings' = <<>>
    /\ window' = NoWindow
    /\ fetch_raised' = FALSE

Init ==
    /\ meetings = <<>>
    /\ last = NoCall
    /\ hpc = "idle"
    /\ start_date = 0
    /\ end_date = 0
    /\ current_start = 0
    /\ current_end = 0
    /\ current_batch = 0
    /\ all_meetings = <<>>
    /\ window = NoWindow
    /\ fetch_raised = FALSE
    /\ cli = NoCli
    /\ runs = [r \in Procs |-> NoRun]
    /\ conn = NoConn
    /\ svc = NoService
    /\ schema = NoSchema
    /\ ddl = NoDdl
    /\ stx = NoTx

\* the record of a call that ran store_meetings_data; batch: the records
\* fetch_calendar_data produced for it
Stored(op, arg, batch, res, repeat) ==
    [op |-> op, arg |-> arg, batch |-> batch, rows_before |-> Len(meetings), ok |-> res.ok,
     stored |-> TRUE, inserted |-> res.inserted, updated |-> res.updated,
     skipped |-> res.skipped, aborted |-> res.aborted, repeat |-> repeat,
     auth |-> TRUE, fetches |-> 0]

\* the record of a call that returned before store_meetings_data
Returned(op, arg, batch, ok, repeat) ==
    [op |-> op, arg |-> arg, batch |-> batch, rows_before |-> Len(meetings), ok |-> ok,
     stored |-> FALSE, inserted |-> 0, updated |-> 0, skipped |-> 0,
     aborted |-> FALSE, repeat |-> repeat, auth |-> TRUE, fetches |-> 0]

\* store_meetings_data(meetings_data, clear_existing) called on its own
StoreCall(meetings_data, clear_existing, connects) ==
    /\ LET res == StoreMeetingsData(meetings, meetings_data, clear_existing, connects)
       IN  /\ meetings' = res.rows
           /\ last' = Stored(IF clear_existing THEN "store_clear" ELSE "store",
                             0, <<>>, res, FALSE)
    /\ UNCHANGED <<hvars, cli, ovars>>

\* the result of service.authenticate() not looked at
AuthenticationIgnored(authenticates) == TRUE

\* if not service.authenticate(): return False
Authenticated(authenticates) == authenticates

\* fetch_incremental passes clear_existing=True
IncrementalClearsExisting == TRUE

\* fetch_incremental_data's clear_existing argument
IncrementalClearExisting == FALSE

\* fetch_incremental_data(days_back); events: what get_events returns for the
\* window.  repeat: the call before was a committed incremental fetch of the
\* same window with the same events.
FetchIncrementalData(days_back, authenticates, events, connects) ==
    /\ LET meetings_data == FetchCalendarData(events)
           repeat == /\ last.op = "incremental"
                     /\ last.arg = days_back
                     /\ last.batch = meetings_data
                     /\ last.ok
                     /\ last.stored
           res == StoreMeetingsData(meetings, meetings_data,
                                    IncrementalClearExisting, connects)
       IN  IF ~Authenticated(authenticates)
           THEN /\ last' = [Returned("incremental", days_back, <<>>, FALSE, FALSE)
                              EXCEPT !.auth = authenticates]
                /\ UNCHANGED meetings
           ELSE IF meetings_data = <<>>
           THEN /\ last' = [Returned("incremental", days_back, <<>>, TRUE, FALSE)
                              EXCEPT !.auth = authenticates, !.fetches = 1]
                /\ UNCHANGED meetings
           ELSE /\ meetings' = res.rows
                /\ last' = [Stored("incremental", days_back, meetings_data, res, repeat)
                              EXCEPT !.auth = authenticates, !.fetches = 1]
    /\ UNCHANGED <<hvars, cli, ovars>>

Min(a, b) == IF a < b THEN a ELSE b

\* fetch_historical_data(years_back) up to the window loop
HistStart(years_back, authenticates) ==
    /\ hpc = "idle"
    /\ IF ~Authenticated(authenticates)
       THEN /\ last' = [Returned("historical", years_back, <<>>, FALSE, FALSE)
                          EXCEPT !.auth = authenticates]
            /\ UNCHANGED hvars
       ELSE /\ last' = [NoCall EXCEPT !.op = "running", !.arg = years_back,
                                      !.auth = authenticates]
            /\ hpc' = "loop"
            /\ end_date' = 0
            /\ start_date' = 0 - years_back * DaysPerYear
            /\ current_start' = 0 - years_back * DaysPerYear
            /\ current_end' = 0
            /\ current_batch' = 0
            /\ all_meetings' = <<>>
            /\ window' = NoWindow
            /\ fetch_raised' = FALSE
    /\ UNCHANGED <<meetings, cli, ovars>>

\* one iteration of the window loop whose fetch_calendar_data returns
HistFetchReturns(events) ==
    /\ hpc = "loop"
    /\ current_start < end_date
    /\ Len(all_meetings) + Len(FetchCalendarData(events)) <= MaxBatch
    /\ current_batch' = current_batch + 1
    /\ current_end' = Min(current_start + WindowDays, end_date)
    /\ all_meetings' = all_meetings \o FetchCalendarData(events)
    /\ current_start' = current_end'
    /\ window' = <<current_start, current_end'>>
    /\ fetch_raised' = FALSE
    /\ UNCHANGED <<meetings, last, hpc, start_date, end_date, cli, ovars>>

\* one iteration of the window loop whose fetch_calendar_data raises:
\* except ...: continue, which skips current_start = current_end
HistFetchRaises ==
    /\ hpc = "loop"
    /\ current_start < end_date
    /\ current_batch < MaxAttempts
    /\ current_batch' = current_batch + 1
    /\ current_end' = Min(current_start + WindowDays, end_date)
    /\ window' = <<current_start, current_end'>>
    /\ fetch_raised' = TRUE
    /\ UNCHANGED <<meetings, last, hpc, start_date, end_date, current_start,
                   all_meetings, cli, ovars>>

\* the loop has ended: return False without data, else store with
\* clear_existing=True
HistReturn(connects) ==
    /\ hpc = "loop"
    /\ ~(current_start < end_date)
    /\ LET years_back == (0 - start_date) \div DaysPerYear
           res == StoreMeetingsData(meetings, all_meetings, TRUE, connects)
       IN  IF all_meetings = <<>>
           THEN /\ last' = [Returned("historical", years_back, <<>>, FALSE, FALSE)
                              EXCEPT !.auth = last.auth, !.fetches = current_batch]
                /\ UNCHANGED meetings
           ELSE /\ meetings' = res.rows
                /\ last' = [Stored("historical", years_back, all_meetings, res, FALSE)
                              EXCEPT !.auth = last.auth, !.fetches = current_batch]
    /\ HistIdle
    /\ UNCHANGED <<cli, ovars>>

\* ------------------------------------------------------------------- main
Flags == {"--daily", "--years", "--days", "--start-date --end-date", "none"}

\* the connection variables get_db_connection reads
EnvVars == {"POSTGRES_HOST", "POSTGRES_PORT", "POSTGRES_DB", "POSTGRES_USER",
            "POSTGRES_PASSWORD"}

\* required_env_vars with POSTGRES_PASSWORD left out
RequiredEnvVarsNoPassword == {"POSTGRES_HOST", "POSTGRES_DB", "POSTGRES_USER"}

RequiredEnvVars == {"POSTGRES_HOST", "POSTGRES_DB", "POSTGRES_USER", "POSTGRES_PASSWORD"}

\* missing_vars = [var for var in required_env_vars if not os.getenv(var)]
MissingVars(unset) == unset \cap RequiredEnvVars

\* fetcher = DynamicCalendarFetcher(): the module neither defines nor imports
\* the name, so the call raises NameError
FetcherConstructed == FALSE

\* the status main() exits with; success: the result of the selected fetch
MainExit(flag, missing_vars, success) ==
    IF missing_vars # {} THEN 1
    ELSE IF ~FetcherConstructed THEN 1
    ELSE IF flag = "none" THEN 1
    ELSE IF success THEN 0
    ELSE 1

\* the if/elif chain over args: the fetcher method the flag selects
Selected(flag) ==
    CASE flag = "--daily" -> "fetch_daily_update"
      [] flag = "--years" -> "fetch_historical_data"
      [] flag = "--days" -> "fetch_recent_data"
      [] flag = "--start-date --end-date" -> "fetch_date_range"
      [] OTHER -> "none"

\* the fetcher method main() gets to call
MainCall(flag, missing_vars) ==
    IF missing_vars # {} THEN "none"
    ELSE IF ~FetcherConstructed THEN "none"
    ELSE Selected(flag)

\* what the called method does: of the four names only fetch_historical_data
\* and fetch_incremental_data name code of the module
Windowing(call) ==
    CASE call = "fetch_historical_data" -> "windows"
      [] call = "fetch_incremental_data" -> "single"
      [] OTHER -> "none"

ClearExisting(call) ==
    CASE call = "fetch_historical_data" -> "True"
      [] call = "fetch_incremental_data" -> "False"
      [] OTHER -> "none"

\* the message main() prints before it exits
MainDiagnostic(flag, missing_vars, success) ==
    IF missing_vars # {} THEN "Missing required environment variables"
    ELSE IF ~FetcherConstructed THEN "Error during data fetch"
    ELSE IF flag = "none" THEN "Please specify one of"
    ELSE IF success THEN "Data fetch completed successfully"
    ELSE "Data fetch failed"

\* one invocation of the fetch CLI.  unset: the connection variables the
\* environment lacks.  would_succeed: authentication, the source and the
\* database are such that the selected fetch returns True.
Main(flag, unset, would_succeed) ==
    /\ cli.pc = "start"
    /\ LET missing_vars == MissingVars(unset)
           call == MainCall(flag, missing_vars)
       IN  cli' = [pc |-> "exited", flag |-> flag, unset |-> unset,
                   missing_vars |-> missing_vars,
                   would_succeed |-> would_succeed,
                   call |-> call,
                   windowing |-> Windowing(call),
                   clear_existing |-> ClearExisting(call),
                   diagnostic |-> MainDiagnostic(flag, missing_vars, would_succeed),
                   named |-> missing_vars,
                   exit |-> MainExit(flag, missing_vars, would_succeed)]
    /\ UNCHANGED <<meetings, last, hvars, ovars>>

\* ------------------------------------- two concurrent incremental stores
\* Two store_meetings_data(meetings_data, clear_existing=False) runs, each in
\* its own READ COMMITTED transaction on the same table, statement by
\* statement.  A run sees the committed rows and its own writes; an INSERT or
\* UPDATE of a key another open transaction has written waits for that
\* transaction to end; a failed statement aborts the transaction, which drops
\* its writes and locks at once.
Other(r) == 3 - r

RECURSIVE UpdateAll(_, _)
UpdateAll(rows, upd) ==
    IF upd = <<>> THEN rows
    ELSE UpdateAll(UpdateMeeting(rows, Head(upd)), Tail(upd))

\* the rows the statements of run r see
Visible(r) == UpdateAll(meetings, runs[r].upd) \o runs[r].ins

\* the other run holds an uncommitted write of the key
Locked(r, event_id) ==
    LET o == runs[Other(r)]
    IN  /\ o.pc \in {"select", "update", "insert", "commit"}
        /\ \/ Existing(o.ins, event_id)
           \/ Existing(o.upd, event_id)

\* the loop goes on with the next record, or leaves for conn.commit()
AfterRecord(todo) == IF Len(todo) > 1 THEN "select" ELSE "commit"

\* the run starts: cursor = conn.cursor(), the counters at zero
ConcStart(r, meetings_data) ==
    /\ runs[r].pc = "idle"
    /\ runs' = [runs EXCEPT ![r] =
                  [NoRun EXCEPT !.pc = IF meetings_data = <<>> THEN "commit"
                                        ELSE "select",
                                !.todo = meetings_data]]
    /\ UNCHANGED <<meetings, last, hvars, cli, conn, xvars>>

\* the statement of an aborted transaction raises: except ...: skipped += 1
ConcSkipAborted(r) ==
    /\ runs[r].pc = "select"
    /\ runs[r].aborted
    /\ runs' = [runs EXCEPT ![r].skipped = @ + 1,
                            ![r].todo = Tail(@),
                            ![r].pc = AfterRecord(runs[r].todo)]
    /\ UNCHANGED <<meetings, last, hvars, cli, conn, xvars>>

\* SELECT id FROM meetings WHERE event_id = %s ; existing = cursor.fetchone()
ConcSelect(r) ==
    /\ runs[r].pc = "select"
    /\ ~runs[r].aborted
    /\ runs' = [runs EXCEPT ![r].pc =
                  IF Existing(Visible(r), Head(runs[r].todo).event_id)
                  THEN "update" ELSE "insert"]
    /\ UNCHANGED <<meetings, last, hvars, cli, conn, xvars>>

\* UPDATE meetings SET ... WHERE event_id = %s ; updated += 1
ConcUpdate(r) ==
    /\ runs[r].pc = "update"
    /\ ~Locked(r, Head(runs[r].todo).event_id)
    /\ runs' = [runs EXCEPT ![r].upd = Append(@, Head(runs[r].todo)),
                            ![r].ins = UpdateMeeting(@, Head(runs[r].todo)),
                            ![r].updated = @ + 1,
                            ![r].todo = Tail(@),
                            ![r].pc = AfterRecord(runs[r].todo)]
    /\ UNCHANGED <<meetings, last, hvars, cli, conn, xvars>>

\* the transaction of run r is aborted by a failed statement
Aborted(run) ==
    [run EXCEPT !.skipped = @ + 1, !.aborted = TRUE, !.ins = <<>>, !.upd = <<>>,
                !.todo = Tail(@), !.pc = AfterRecord(run.todo)]

\* INSERT INTO meetings ... ON CONFLICT (event_id) DO NOTHING
ConcInsert(r) ==
    /\ runs[r].pc = "insert"
    /\ LET meeting == Head(runs[r].todo)
       IN  IF InsertRaises(meeting)
           THEN runs' = [runs EXCEPT ![r] = Aborted(@)]
           ELSE IF Conflict(Visible(r), meeting)
           THEN runs' = [runs EXCEPT ![r].skipped = @ + 1,
                                     ![r].keys = @ \cup {meeting.event_id},
                                     ![r].todo = Tail(@),
                                     ![r].pc = AfterRecord(runs[r].todo)]
           ELSE /\ ~Locked(r, meeting.event_id)
                /\ runs' = [runs EXCEPT ![r].ins = Append(@, meeting),
                                        ![r].inserted = @ + 1,
                                        ![r].keys = @ \cup {meeting.event_id},
                                        ![r].todo = Tail(@),
                                        ![r].pc = AfterRecord(runs[r].todo)]
    /\ UNCHANGED <<meetings, last, hvars, cli, conn, xvars>>

\* run r waits for the other transaction to end
Waits(r) ==
    /\ runs[r].pc \in {"update", "insert"}
    /\ Locked(r, Head(runs[r].todo).event_id)
    /\ runs[r].pc = "insert" =>
          /\ ~InsertRaises(Head(runs[r].todo))
          /\ ~Conflict(Visible(r), Head(runs[r].todo))

\* both runs wait for each other: the server ends the deadlock by failing the
\* statement of one of them
ConcDeadlock(r) ==
    /\ Waits(r)
    /\ Waits(Other(r))
    /\ runs' = [runs EXCEPT ![r] = Aborted(@)]
    /\ UNCHANGED <<meetings, last, hvars, cli, conn, xvars>>

\* conn.commit(): of an aborted transaction, a rollback
ConcCommit(r) ==
    /\ runs[r].pc = "commit"
    /\ meetings' = IF runs[r].aborted THEN meetings
                   ELSE UpdateAll(meetings, runs[r].upd) \o runs[r].ins
    /\ runs' = [runs EXCEPT ![r].pc = "done"]
    /\ UNCHANGED <<last, hvars, cli, conn, xvars>>

\* ------------------------------------------------------ get_db_connection
\* raise only once retries has passed max_retries
ExhaustedLate(retries, max_retries) == retries > max_retries

\* if retries >= max_retries: raise
Exhausted(retries, max_retries) == retries >= max_retries

\* get_db_connection(max_retries, retry_delay) is entered.  configured: host,
\* database, user and password resolve to non-empty values.
ConnStart(max_retries, retry_delay, configured) ==
    /\ conn.pc \in {"idle", "closed", "raised"}
    /\ conn' = [NoConn EXCEPT !.max_retries = max_retries,
                              !.retry_delay = retry_delay,
                              !.pc = IF configured THEN "loop" ELSE "raised",
                              !.error = IF configured THEN "none" ELSE "ValueError"]
    /\ UNCHANGED <<meetings, last, hvars, cli, runs, xvars>>

\* the connections of the call that are open once 'conn' has been bound to
\* a new one.  collected: the runtime has by then closed the connection
\* 'conn' was bound to before, which nothing refers to any more and which
\* the function never closes.
Rebound(open, collected) == (IF collected THEN 0 ELSE open) + 1

\* an attempt connects and its test query returns 1: break, yield conn
ConnAttemptSucceeds(collected) ==
    /\ conn.pc = "loop"
    /\ conn.retries < conn.max_retries
    /\ conn' = [conn EXCEPT !.attempts = @ + 1, !.pc = "yielded",
                            !.open = Rebound(@, collected)]
    /\ UNCHANGED <<meetings, last, hvars, cli, runs, xvars>>

\* an attempt fails, in psycopg2.connect ("OperationalError": no connection
\* is opened and 'conn' stays bound) or in the test query ("Connection test
\* failed": the connection is open and 'conn' is bound to it)
ConnAttemptFails(error, collected) ==
    /\ conn.pc = "loop"
    /\ conn.retries < conn.max_retries
    /\ LET retries == conn.retries + 1
           open == IF error = "OperationalError" THEN conn.open
                   ELSE Rebound(conn.open, collected)
       IN  conn' = IF Exhausted(retries, conn.max_retries)
                   THEN [conn EXCEPT !.attempts = @ + 1, !.retries = retries,
                                     !.error = error, !.pc = "raised",
                                     !.open = open]
                   ELSE [conn EXCEPT !.attempts = @ + 1, !.retries = retries,
                                     !.error = error,
                                     !.slept = @ + conn.retry_delay,
                                     !.open = open]
    /\ UNCHANGED <<meetings, last, hvars, cli, runs, xvars>>

\* the with block of the caller ends: finally: conn.close()
ConnClose ==
    /\ conn.pc = "yielded"
    /\ conn' = [conn EXCEPT !.pc = "closed", !.open = @ - 1]
    /\ UNCHANGED <<meetings, last, hvars, cli, runs, xvars>>

\* ---------------------------------------------------- authentication
\* what TOKEN_FILE holds: nothing, a file from_authorized_user_file cannot
\* read, or a credential that is valid or not, expired or not, with a refresh
\* token or without
NoFile == [file |-> "absent"]
Corrupt == [file |-> "corrupt"]

Credential(valid, expired, refresh_token) ==
    [valid |-> valid, expired |-> expired, refresh_token |-> refresh_token]

Tokens ==
    {NoFile, Corrupt}
    \cup { c \in { Credential(v, e, r) : v, e, r \in BOOLEAN } :
               ~(c.valid /\ c.expired) }

\* the credential after 'if not self.credentials or not self.credentials.valid'
\* and its refresh branch; refreshes: credentials.refresh(Request()) returns
Refreshed(credentials, refreshes) ==
    IF credentials = None THEN None
    ELSE IF credentials.valid THEN credentials
    ELSE IF credentials.expired /\ credentials.refresh_token
         THEN (IF refreshes THEN Credential(TRUE, FALSE, TRUE) ELSE None)
         ELSE credentials

\* the object after authenticate(); builds: build('calendar', 'v3', ...) returns
AuthenticateResult(token, refreshes, builds) ==
    IF token = Corrupt
    THEN [NoService EXCEPT !.call = "authenticate", !.returned = "False"]
    ELSE LET loaded == IF token = NoFile THEN None ELSE token
             credentials == Refreshed(loaded, refreshes)
         IN  IF credentials = None
             THEN [NoService EXCEPT !.call = "authenticate", !.returned = "False"]
             ELSE IF ~builds
             THEN [NoService EXCEPT !.credentials = credentials,
                                    !.call = "authenticate", !.returned = "False"]
             ELSE [NoService EXCEPT !.credentials = credentials,
                                    !.service = "calendar v3",
                                    !._authenticated = TRUE,
                                    !.call = "authenticate", !.returned = "True"]

\* the object with what its authenticate() found in TOKEN_FILE and whether
\* the refresh call, when made, returned; a refreshed credential is written
\* back to TOKEN_FILE
Authenticating(token, refreshes, builds) ==
    [AuthenticateResult(token, refreshes, builds)
        EXCEPT !.token = token, !.refreshed = refreshes,
               !.token_file = IF token \notin {NoFile, Corrupt}
                                 /\ Refreshed(token, refreshes) \notin {None, token}
                              THEN Refreshed(token, refreshes) ELSE token]

\* TOKEN_FILE is written, removed or goes stale outside the service
TokenFileChanges(token) ==
    /\ svc.token_file # token
    /\ svc' = [svc EXCEPT !.token_file = token]
    /\ UNCHANGED <<meetings, last, hvars, cli, runs, conn, schema, ddl, stx>>

\* service = GoogleCalendarService(); service.authenticate()
Authenticate(refreshes, builds) ==
    /\ svc' = Authenticating(svc.token_file, refreshes, builds)
    /\ UNCHANGED <<meetings, last, hvars, cli, runs, conn, schema, ddl, stx>>

\* get_events on the object: authenticates first when it has not, then lists
\* the events; lists: events().list(...).execute() returns, which it does
\* only with a valid credential
GetEvents(refreshes, builds, lists, events) ==
    /\ LET obj == IF svc._authenticated THEN svc
                  ELSE Authenticating(svc.token_file, refreshes, builds)
       IN  svc' = IF ~obj._authenticated
                  THEN [obj EXCEPT !.call = "get_events", !.returned = "list",
                                   !.events = <<>>]
                  ELSE IF lists /\ obj.credentials.valid
                  THEN [obj EXCEPT !.call = "get_events", !.returned = "list",
                                   !.events = [i \in 1..Len(events) |->
                                                 ProcessedEvent(events[i])]]
                  ELSE [obj EXCEPT !.call = "get_events", !.returned = "list",
                                   !.events = <<>>]
    /\ UNCHANGED <<meetings, last, hvars, cli, runs, conn, schema, ddl, stx>>

\* ------------------------------------------------------------ schema setup
\* the unique constraints on event_id: the one the scripts add by name and the
\* one 'event_id TEXT UNIQUE' of cleanup_database creates
ConstraintNames == {"unique_event_id", "meetings_event_id_key"}

\* the DDL statements of the scripts
CreateTable(table, if_not_exists, event_id, unique) ==
    [op |-> "create_table", table |-> table, if_not_exists |-> if_not_exists,
     event_id |-> event_id, unique |-> unique]

DropTable(table) == [op |-> "drop_table", table |-> table]

CreateIndex(name, table, column, if_not_exists) ==
    [op |-> "create_index", name |-> name, table |-> table, column |-> column,
     if_not_exists |-> if_not_exists]

AddColumn == [op |-> "add_column"]

AddConstraint == [op |-> "add_constraint"]

HasTable(s, table) ==
    IF table = "meetings" THEN s.meetings
    ELSE IF table = "users" THEN s.users
    ELSE s.fetch_history

\* the table an index of the scripts is on
IndexTable(name) ==
    IF name = "idx_users_email" THEN "users"
    ELSE IF name = "idx_fetch_history_date" THEN "fetch_history"
    ELSE "meetings"

\* cursor.execute of one DDL statement in schema s: the schema after it and
\* the error it raises
Execute(s, stmt) ==
    IF stmt.op = "drop_table"
    THEN [schema |->
            IF stmt.table = "meetings"
            THEN [s EXCEPT !.meetings = FALSE, !.event_id = FALSE,
                           !.constraints = {},
                           !.indexes = { n \in @ : IndexTable(n) # "meetings" }]
            ELSE IF stmt.table = "users"
            THEN [s EXCEPT !.users = FALSE,
                           !.indexes = { n \in @ : IndexTable(n) # "users" }]
            ELSE [s EXCEPT !.fetch_history = FALSE,
                           !.indexes = { n \in @ : IndexTable(n) # "fetch_history" }],
          error |-> "none"]
    ELSE IF stmt.op = "create_table"
    THEN IF HasTable(s, stmt.table)
         THEN [schema |-> s,
               error |-> IF stmt.if_not_exists THEN "none" ELSE "DuplicateTable"]
         ELSE [schema |->
                 IF stmt.table = "meetings"
                 THEN [s EXCEPT !.meetings = TRUE, !.event_id = stmt.event_id,
                                !.constraints = IF stmt.unique
                                                THEN {"meetings_event_id_key"}
                                                ELSE {}]
                 ELSE IF stmt.table = "users"
                 THEN [s EXCEPT !.users = TRUE]
                 ELSE [s EXCEPT !.fetch_history = TRUE],
               error |-> "none"]
    ELSE IF stmt.op = "create_index"
    THEN IF ~HasTable(s, stmt.table)
         THEN [schema |-> s, error |-> "UndefinedTable"]
         ELSE IF stmt.column = "event_id" /\ ~s.event_id
         THEN [schema |-> s, error |-> "UndefinedColumn"]
         ELSE IF stmt.name \in s.indexes
         THEN [schema |-> s,
               error |-> IF stmt.if_not_exists THEN "none" ELSE "DuplicateTable"]
         ELSE [schema |-> [s EXCEPT !.indexes = @ \cup {stmt.name}],
               error |-> "none"]
    ELSE IF stmt.op = "add_column"
    THEN IF ~s.meetings
         THEN [schema |-> s, error |-> "UndefinedTable"]
         ELSE IF s.event_id
         THEN [schema |-> s, error |-> "DuplicateColumn"]
         ELSE [schema |-> [s EXCEPT !.event_id = TRUE], error |-> "none"]
    ELSE IF ~s.meetings
         THEN [schema |-> s, error |-> "UndefinedTable"]
         ELSE IF ~s.event_id
         THEN [schema |-> s, error |-> "UndefinedColumn"]
         ELSE IF "unique_event_id" \in s.constraints
         THEN [schema |-> s, error |-> "DuplicateTable"]
         ELSE [schema |-> [s EXCEPT !.constraints = @ \cup {"unique_event_id"}],
               error |-> "none"]

\* the statements stmts[i..] executed one after the other until one raises;
\* fail: the position of a statement the server fails (0: none)
RECURSIVE Run(_, _, _, _)
Run(s, stmts, i, fail) ==
    IF i > Len(stmts)
    THEN [schema |-> s, error |-> "none", dropped |-> FALSE]
    ELSE IF i = fail
    THEN [schema |-> s, error |-> "OperationalError", dropped |-> FALSE]
    ELSE LET r == Execute(s, stmts[i])
         IN  IF r.error # "none"
             THEN [schema |-> s, error |-> r.error, dropped |-> FALSE]
             ELSE LET rest == Run(r.schema, stmts, i + 1, fail)
                  IN  [rest EXCEPT !.dropped =
                          @ \/ (stmts[i].op = "drop_table"
                                /\ stmts[i].table = "meetings")]

\* the record of a schema operation: what it returned ("True", "False",
\* "None" or "raised") and whether one of its DDL statements failed
Ddl(op, returned, error) ==
    [op |-> op, returned |-> returned, failed |-> error # "none"]

\* the three indexes init_database of database.py and init_db create
MeetingIndexes ==
    <<CreateIndex("idx_meetings_user_email", "meetings", "user_email", TRUE),
      CreateIndex("idx_meetings_start_time", "meetings", "start_time", TRUE),
      CreateIndex("idx_meetings_department", "meetings", "department", TRUE)>>

\* the DDL of init_database() of database.py
InitDatabaseStatements ==
    <<CreateTable("meetings", TRUE, FALSE, FALSE),
      CreateTable("users", TRUE, FALSE, FALSE)>> \o MeetingIndexes

\* init_database() of database.py; report_fails: the SELECT COUNT(*) after
\* the commit raises
InitDatabase(fail, report_fails) ==
    /\ LET r == Run(schema, InitDatabaseStatements, 1, fail)
       IN  IF r.error # "none"
           THEN /\ ddl' = Ddl("init_database", "raised", r.error)
                /\ UNCHANGED schema
           ELSE /\ schema' = r.schema
                /\ ddl' = Ddl("init_database",
                              IF report_fails THEN "raised" ELSE "None",
                              "none")
    /\ UNCHANGED <<meetings, last, hvars, cli, runs, conn, svc, stx>>

\* the DDL of update_schema() after its two checks
UpdateSchemaStatements ==
    <<AddConstraint,
      CreateIndex("idx_meetings_event_id", "meetings", "event_id", TRUE),
      CreateIndex("idx_meetings_start_time", "meetings", "start_time", TRUE),
      CreateIndex("idx_meetings_user_email", "meetings", "user_email", TRUE)>>

\* update_schema() in schema s: the committed schema after it, what it
\* returns and the error it met; report_fails: the pg_indexes query after
\* the commit raises
UpdateSchemaResult(s, fail, report_fails) ==
    LET column == IF s.event_id THEN <<>> ELSE <<AddColumn>>
        r1 == Run(s, column, 1, fail)
        existing_constraint == r1.schema.constraints # {}
        r2 == Run(r1.schema, UpdateSchemaStatements, 1,
                  IF fail > Len(column) THEN fail - Len(column) ELSE 0)
    IN  IF r1.error # "none"
        THEN [schema |-> s, returned |-> "False", error |-> r1.error]
        ELSE IF existing_constraint
        THEN [schema |-> s, returned |-> "True", error |-> "none"]
        ELSE IF r2.error # "none"
        THEN [schema |-> s, returned |-> "False", error |-> r2.error]
        ELSE [schema |-> r2.schema,
              returned |-> IF report_fails THEN "False" ELSE "True",
              error |-> "none"]

UpdateSchema(fail, report_fails) ==
    /\ LET res == UpdateSchemaResult(schema, fail, report_fails)
       IN  /\ schema' = res.schema
           /\ ddl' = Ddl("update_schema", res.returned, res.error)
    /\ UNCHANGED <<meetings, last, hvars, cli, runs, conn, svc, stx>>

\* the DDL of init_database() of init_db_standalone.py before its ADD
\* CONSTRAINT
InitDbStandaloneStatements ==
    <<CreateTable("meetings", TRUE, TRUE, FALSE),
      CreateTable("users", TRUE, FALSE, FALSE),
      CreateIndex("idx_meetings_user_email", "meetings", "user_email", TRUE),
      CreateIndex("idx_meetings_start_time", "meetings", "start_time", TRUE),
      CreateIndex("idx_meetings_department", "meetings", "department", TRUE),
      CreateIndex("idx_meetings_event_id", "meetings", "event_id", TRUE),
      CreateIndex("idx_users_email", "users", "email", TRUE)>>

\* init_database() of init_db_standalone.py: a DuplicateTable of the ADD
\* CONSTRAINT is caught, the transaction stays aborted and conn.commit()
\* rolls it back
InitDbStandalone(fail) ==
    /\ LET stmts == InitDbStandaloneStatements
           r1 == Run(schema, stmts, 1, fail)
           r2 == Run(r1.schema, <<AddConstraint>>, 1,
                     IF fail > Len(stmts) THEN fail - Len(stmts) ELSE 0)
       IN  IF r1.error # "none"
           THEN /\ ddl' = Ddl("init_db_standalone", "False", r1.error)
                /\ UNCHANGED schema
           ELSE IF r2.error = "DuplicateTable"
           THEN /\ ddl' = Ddl("init_db_standalone", "True", r2.error)
                /\ UNCHANGED schema
           ELSE IF r2.error # "none"
           THEN /\ ddl' = Ddl("init_db_standalone", "False", r2.error)
                /\ UNCHANGED schema
           ELSE /\ schema' = r2.schema
                /\ ddl' = Ddl("init_db_standalone", "True", "none")
    /\ UNCHANGED <<meetings, last, hvars, cli, runs, conn, svc, stx>>

\* the DDL of init_db() of app/init_db.py
InitDbStatements ==
    <<DropTable("meetings"), CreateTable("meetings", TRUE, FALSE, FALSE)>>
    \o MeetingIndexes

\* init_db() of app/init_db.py; report_fails: a verification query after the
\* commit raises
InitDb(fail, report_fails) ==
    /\ LET r == Run(schema, InitDbStatements, 1, fail)
       IN  IF r.error # "none"
           THEN /\ ddl' = Ddl("init_db", "raised", r.error)
                /\ UNCHANGED <<schema, meetings>>
           ELSE /\ schema' = r.schema
                /\ meetings' = IF r.dropped THEN <<>> ELSE meetings
                /\ ddl' = Ddl("init_db",
                              IF report_fails THEN "raised" ELSE "None",
                              "none")
    /\ UNCHANGED <<last, hvars, cli, runs, conn, svc, stx>>

\* the DDL of cleanup_database()
CleanupDatabaseStatements ==
    <<DropTable("meetings"), DropTable("users"),
     DropTable("fetch_history"),
     CreateTable("meetings", FALSE, TRUE, TRUE),
     CreateTable("users", FALSE, FALSE, FALSE),
     CreateTable("fetch_history", FALSE, FALSE, FALSE),
     CreateIndex("idx_meetings_user_email", "meetings", "user_email", FALSE),
     CreateIndex("idx_meetings_start_time", "meetings", "start_time", FALSE),
     CreateIndex("idx_meetings_department", "meetings", "department", FALSE),
     CreateIndex("idx_meetings_event_id", "meetings", "event_id", FALSE),
     CreateIndex("idx_users_email", "users", "email", FALSE),
     CreateIndex("idx_fetch_history_date", "fetch_history", "fetch_date", FALSE)>>

\* cleanup_database(): every statement commits on its own (autocommit)
CleanupDatabase(fail) ==
    /\ LET r == Run(schema, CleanupDatabaseStatements, 1, fail)
       IN  /\ schema' = r.schema
           /\ meetings' = IF r.dropped THEN <<>> ELSE meetings
           /\ ddl' = Ddl("cleanup_database",
                         IF r.error # "none" THEN "False" ELSE "True",
                         r.error)
    /\ UNCHANGED <<last, hvars, cli, runs, conn, svc, stx>>

\* the INSERT ... ON CONFLICT (event_id) of store_meetings_data needs the
\* table, the column and a unique constraint on it
Storable(s) == s.meetings /\ s.event_id /\ s.constraints # {}

\* ------------------------------------- store_meetings_data, step by step
\* store_meetings_data is entered: get_db_connection yields a connection
\* and, with clear_existing, the DELETE runs inside the transaction
TxStart(meetings_data, clear_existing) ==
    /\ stx.pc \in {"idle", "returned", "killed"}
    /\ stx' = [NoTx EXCEPT !.pc = "loop", !.clear_existing = clear_existing,
                           !.batch = meetings_data, !.todo = meetings_data,
                           !.before = meetings,
                           !.tx.rows = Cleared(meetings, clear_existing)]
    /\ UNCHANGED <<meetings, last, hvars, cli, runs, conn, svc, schema, ddl>>

\* store_meetings_data is entered and get_db_connection raises: return False
TxConnectFails ==
    /\ stx.pc \in {"idle", "returned", "killed"}
    /\ stx' = [NoTx EXCEPT !.pc = "returned", !.returned = "False",
                           !.before = meetings]
    /\ UNCHANGED <<meetings, last, hvars, cli, runs, conn, svc, schema, ddl>>

\* one iteration of the record loop
TxRecord ==
    /\ stx.pc = "loop"
    /\ stx.todo # <<>>
    /\ stx' = [stx EXCEPT !.tx = ProcessMeeting(@, Head(stx.todo), stx.clear_existing),
                          !.todo = Tail(@)]
    /\ UNCHANGED <<meetings, last, hvars, cli, runs, conn, svc, schema, ddl>>

\* the table after the transaction is lost uncommitted
RolledBackKeepsWrites(rows, tx) == tx.rows

\* the server drops what a connection that ends without a commit has written
RolledBack(rows, tx) == rows

\* conn.commit() after the loop; commits: the server acknowledges it
TxCommit(commits) ==
    /\ stx.pc = "loop"
    /\ stx.todo = <<>>
    /\ IF commits
       THEN /\ meetings' = IF stx.tx.aborted THEN RolledBack(meetings, stx.tx)
                           ELSE stx.tx.rows
            /\ stx' = [stx EXCEPT !.pc = "stats", !.committed = ~stx.tx.aborted]
       ELSE /\ meetings' = RolledBack(meetings, stx.tx)
            /\ stx' = [stx EXCEPT !.pc = "returned", !.returned = "False"]
    /\ UNCHANGED <<last, hvars, cli, runs, conn, svc, schema, ddl>>

\* the statistics queries after the commit and the return; reports: they
\* return
TxStats(reports) ==
    /\ stx.pc = "stats"
    /\ stx' = [stx EXCEPT !.pc = "returned",
                          !.returned = IF reports THEN "True" ELSE "False"]
    /\ UNCHANGED <<meetings, last, hvars, cli, runs, conn, svc, schema, ddl>>

\* the process is killed inside store_meetings_data
TxKill ==
    /\ stx.pc \in {"loop", "stats"}
    /\ meetings' = IF stx.pc = "loop" THEN RolledBack(meetings, stx.tx)
                   ELSE meetings
    /\ stx' = [stx EXCEPT !.pc = "killed"]
    /\ UNCHANGED <<last, hvars, cli, runs, conn, svc, schema, ddl>>

\* ---------------------------------------------------------- specifications
\* store runs: store_meetings_data in both modes and incremental fetches
Next ==
    \/ \E b \in BoundedSeq(Records, MaxBatch), c \in BOOLEAN, k \in BOOLEAN :
          StoreCall(b, c, k)
    \/ \E d \in 1..MaxDays, a \in BOOLEAN, e \in BoundedSeq(Events, MaxEvents),
          k \in BOOLEAN : FetchIncrementalData(d, a, e, k)

Spec == Init /\ [][Next]_vars

\* historical fetches, one after the other, window by window
NextHist ==
    \/ \E y \in 0..MaxYears, a \in BOOLEAN : HistStart(y, a)
    \/ \E e \in BoundedSeq(Events, MaxEvents) : HistFetchReturns(e)
    \/ HistFetchRaises
    \/ \E k \in BOOLEAN : HistReturn(k)

SpecHist == Init /\ [][NextHist]_vars

NextMain ==
    \E f \in Flags, u \in SUBSET EnvVars, w \in BOOLEAN : Main(f, u, w)

SpecMain == Init /\ [][NextMain]_vars

\* connections taken one after the other
NextConn ==
    \/ \E m \in (1..MaxRetries) \cup {DefaultMaxRetries},
          d \in {1, DefaultRetryDelay}, c \in BOOLEAN : ConnStart(m, d, c)
    \/ \E g \in BOOLEAN : ConnAttemptSucceeds(g)
    \/ \E e \in {"OperationalError", "Connection test failed"}, g \in BOOLEAN :
          ConnAttemptFails(e, g)
    \/ ConnClose

SpecConn == Init /\ [][NextConn]_vars

\* calls on GoogleCalendarService objects
NextAuth ==
    \/ \E t \in Tokens : TokenFileChanges(t)
    \/ \E r \in BOOLEAN, b \in BOOLEAN : Authenticate(r, b)
    \/ \E r \in BOOLEAN, b \in BOOLEAN, l \in BOOLEAN,
          e \in BoundedSeq(Events, MaxEvents) : GetEvents(r, b, l, e)

SpecAuth == Init /\ [][NextAuth]_vars

\* two incremental stores side by side
NextConc ==
    \E r \in Procs :
        \/ \E b \in BoundedSeq(Records, MaxConcBatch) : ConcStart(r, b)
        \/ ConcSkipAborted(r)
        \/ ConcSelect(r)
        \/ ConcUpdate(r)
        \/ ConcInsert(r)
        \/ ConcDeadlock(r)
        \/ ConcCommit(r)

SpecConc == Init /\ [][NextConc]_vars

\* the two fetch functions, called one after the other
NextFetch ==
    \/ \E d \in 1..MaxDays, a \in BOOLEAN, e \in BoundedSeq(Events, MaxEvents),
          k \in BOOLEAN : hpc = "idle" /\ FetchIncrementalData(d, a, e, k)
    \/ \E y \in 0..MaxYears, a \in BOOLEAN : HistStart(y, a)
    \/ \E e \in BoundedSeq(Events, MaxEvents) : HistFetchReturns(e)
    \/ \E k \in BOOLEAN : HistReturn(k)

SpecFetch == Init /\ [][NextFetch]_vars

\* where a script of n statements that runs in one transaction is failed:
\* nowhere, at its first or at its last statement
FailAt(n) == {0, 1, n}

\* schema scripts run one after the other, with incremental fetches between
\* them when the table can take their INSERT
NextSchema ==
    \/ \E f \in FailAt(Len(InitDatabaseStatements)), q \in BOOLEAN :
          InitDatabase(f, q)
    \/ \E f \in FailAt(1 + Len(UpdateSchemaStatements)), q \in BOOLEAN :
          UpdateSchema(f, q)
    \/ \E f \in FailAt(Len(InitDbStandaloneStatements) + 1) : InitDbStandalone(f)
    \/ \E f \in FailAt(Len(InitDbStatements)), q \in BOOLEAN : InitDb(f, q)
    \/ \E f \in 0..Len(CleanupDatabaseStatements) : CleanupDatabase(f)
    \/ \E e \in BoundedSeq(Events, MaxEvents) :
          Storable(schema) /\ FetchIncrementalData(1, TRUE, e, TRUE)

SpecSchema == Init /\ [][NextSchema]_vars

\* store_meetings_data calls one after the other, each step by step
NextTx ==
    \/ \E b \in BoundedSeq(Records, MaxBatch), c \in BOOLEAN : TxStart(b, c)
    \/ TxConnectFails
    \/ TxRecord
    \/ \E c \in BOOLEAN : TxCommit(c)
    \/ \E q \in BOOLEAN : TxStats(q)
    \/ TxKill

SpecTx == Init /\ [][NextTx]_vars


\* ------------------------------------------------------------- properties
RowsOf(rows) == { rows[i] : i \in 1..Len(rows) }

HasEventId(rows, event_id) == \E i \in 1..Len(rows) : rows[i].event_id = event_id

\* the call recorded in last' is an incremental fetch or store
IncrementalStep == last'.op \in {"incremental", "store"}

\* this step is the return of fetch_historical_data from after its loop
HistoricalStep == hpc = "loop" /\ hpc' = "idle"

\* C1: after any sequence of historical and incremental store runs the
\* event_id values of all stored rows are pairwise distinct.
EventIdsDistinct ==
    \A i, j \in 1..Len(meetings) :
        i # j => meetings[i].event_id # meetings[j].event_id

\* a clearing store has met a repeated event_id in its batch and skipped it
EventIdsDistinctWitness ==
    /\ last.op = "store_clear"
    /\ last.ok /\ ~last.aborted
    /\ last.inserted >= 1 /\ last.skipped >= 1
    /\ Len(meetings) >= 1

\* C2: an incremental fetch repeated over the same window with the same
\* events, after a first one that stored, leaves the table as it was and
\* counts zero inserted.
IncrementalIdempotent ==
    [][last'.repeat => (meetings' = meetings /\ last'.inserted = 0)]_vars

IncrementalIdempotentWitness ==
    /\ last.repeat /\ last.ok
    /\ last.updated = Len(last.batch) /\ last.updated >= 1
    /\ Len(meetings) >= 2

EventIdsOf(rows) == { rows[i].event_id : i \in 1..Len(rows) }

IncrementalNeverDeletes ==
    [][IncrementalStep =>
        /\ Len(meetings') >= Len(meetings)
        /\ \A i \in 1..Len(meetings) :
              HasEventId(meetings', meetings[i].event_id)]_vars

IncrementalNeverDeletesWitness ==
    /\ last.op = "incremental" /\ last.ok /\ last.stored
    /\ last.rows_before >= 1
    /\ last.inserted >= 1
    /\ Len(meetings) = last.rows_before + last.inserted

\* C5: the windows of the historical loop tile [start_date, end_date): the
\* first starts at start_date, each next one starts where the previous one
\* ended, each is min(start + 31 days, end_date) long, and when the loop is
\* left the last one ends at end_date.
WindowsCoverRange ==
    [][(current_batch' = current_batch + 1) =>
        /\ window'[1] = (IF current_batch = 0 THEN start_date ELSE window[2])
        /\ window'[2] = Min(window'[1] + WindowDays, end_date)
        /\ window'[1] < window'[2]
        /\ (~(current_start' < end_date) => window'[2] = end_date)]_vars

\* C6: after a window whose fetch raised, the run goes on with the next
\* window and does not fetch the failed one again.
FailedWindowNotRetried == fetch_raised => current_start = window[2]

\* C7: an incremental store of one record whose event_id is in the table
\* counts inserted=0, updated=1, keeps the row count and leaves the record's
\* summary in the row.
ExistingEventUpdated ==
    [][(/\ last'.op = "incremental"
        /\ last'.stored /\ last'.ok
        /\ Len(last'.batch) = 1
        /\ HasEventId(meetings, last'.batch[1].event_id)) =>
        /\ last'.inserted = 0
        /\ last'.updated = 1
        /\ Len(meetings') = Len(meetings)
        /\ \A i \in 1..Len(meetings') :
              meetings'[i].event_id = last'.batch[1].event_id
                  => meetings'[i].summary = last'.batch[1].summary
        /\ HasEventId(meetings', last'.batch[1].event_id)]_vars

\* the row inserted from "Sync" (two attendees) now reads "Sync (Rescheduled)"
ExistingEventUpdatedWitness ==
    /\ last.op = "incremental" /\ last.ok /\ last.stored
    /\ Len(last.batch) = 1
    /\ last.inserted = 0 /\ last.updated = 1
    /\ last.rows_before = Len(meetings)
    /\ \E i \in 1..Len(meetings) :
          /\ meetings[i].event_id = "abc123"
          /\ meetings[i].summary = "Sync (Rescheduled)"
          /\ meetings[i].is_one_on_one

\* d is the difference of the two instants in minutes, truncated toward zero
IsTruncatedMinutes(d, start_time, end_time) ==
    LET diff == end_time - start_time
    IN  IF diff >= 0
        THEN d >= 0 /\ 60 * d <= diff /\ diff < 60 * (d + 1)
        ELSE d <= 0 /\ 60 * d >= diff /\ diff > 60 * (d - 1)

\* the records fetch_calendar_data has produced in the running or last fetch
FetchedRecords ==
    RowsOf(all_meetings) \cup RowsOf(last.batch)

\* C8: every record of fetch_calendar_data carries the difference of its own
\* start_time and end_time in minutes, truncated to an integer.
DurationRecomputed ==
    \A m \in FetchedRecords :
        IsTruncatedMinutes(m.duration_minutes, m.start_time, m.end_time)

\* a stored record fetched with end 90 seconds before start carries -1
DurationRecomputedWitness ==
    /\ last.op = "incremental" /\ last.ok /\ last.inserted = 1
    /\ \E m \in FetchedRecords :
          m.end_time - m.start_time = 0 - 90 /\ m.duration_minutes = 0 - 1

\* C9: no stored row has end_time <= start_time.
NoRowEndsBeforeItStarts ==
    \A i \in 1..Len(meetings) : meetings[i].end_time > meetings[i].start_time

\* C10: with its environment complete and a mode flag given, main exits 0
\* when the selected fetch succeeds and 1 when it fails.
ExitCodeReflectsOutcome ==
    (cli.pc = "exited" /\ cli.missing_vars = {} /\ cli.flag # "none")
        => (cli.exit = IF cli.would_succeed THEN 0 ELSE 1)

\* C11: an invocation of the fetch CLI with its environment complete runs
\* one run mode when a mode flag is given, and when none is given runs no
\* fetch or store and exits non-zero with a diagnostic.
OneRunModePerInvocation ==
    (cli.pc = "exited" /\ cli.missing_vars = {}) =>
        IF cli.flag = "none"
        THEN cli.call = "none" /\ cli.exit # 0 /\ cli.diagnostic # ""
        ELSE cli.call \in {"fetch_daily_update", "fetch_historical_data",
                           "fetch_recent_data", "fetch_date_range"}

\* C12: a daily or incremental invocation fetches a single window and stores
\* with clear_existing=False; a historical or date-range invocation splits
\* its range into windows.
ModeFixesWindowingAndStore ==
    (cli.pc = "exited" /\ cli.missing_vars = {}) =>
        /\ cli.flag \in {"--daily", "--days"} =>
              cli.windowing = "single" /\ cli.clear_existing = "False"
        /\ cli.flag \in {"--years", "--start-date --end-date"} =>
              cli.windowing = "windows"

\* C13 as stated: with any of the five POSTGRES_ variables unset the CLI
\* exits non-zero naming the unset ones, before any fetch is called.
AnyUnsetVarIsNamed ==
    (cli.pc = "exited" /\ cli.unset # {}) =>
        cli.exit # 0 /\ cli.named = cli.unset /\ cli.call = "none"

\* C13 amended: with any of POSTGRES_HOST, POSTGRES_DB, POSTGRES_USER,
\* POSTGRES_PASSWORD unset the CLI exits 1 naming exactly the unset ones of
\* these four, before any fetch is called; POSTGRES_PORT is never named.
UnsetRequiredVarIsNamed ==
    LET four == {"POSTGRES_HOST", "POSTGRES_DB", "POSTGRES_USER",
                 "POSTGRES_PASSWORD"}
    IN  /\ (cli.pc = "exited" /\ cli.unset \cap four # {}) =>
              /\ cli.exit = 1
              /\ cli.named = cli.unset \cap four
              /\ cli.diagnostic = "Missing required environment variables"
              /\ cli.call = "none"
        /\ "POSTGRES_PORT" \notin cli.named

\* the CLI has exited naming the password and not the port, both unset
UnsetRequiredVarIsNamedWitness ==
    /\ cli.pc = "exited"
    /\ cli.unset = {"POSTGRES_PASSWORD", "POSTGRES_PORT"}
    /\ cli.named = {"POSTGRES_PASSWORD"}
    /\ cli.exit = 1

\* C14: a fetch_historical_data or fetch_incremental_data call whose
\* authentication fails returns False, has fetched no window and has written
\* nothing to the table.
AuthFailureIsFatal ==
    [][~last'.auth =>
        /\ ~last'.ok
        /\ last'.fetches = 0
        /\ ~last'.stored
        /\ meetings' = meetings
        /\ hpc' = "idle" /\ current_batch' = 0 /\ all_meetings' = <<>>]_vars

\* a historical fetch has failed to authenticate over a table an incremental
\* fetch had filled
AuthFailureIsFatalWitness ==
    /\ last.op = "historical" /\ ~last.auth /\ ~last.ok
    /\ last.fetches = 0
    /\ Len(meetings) >= 1

RowsWith(rows, event_id) == { i \in 1..Len(rows) : rows[i].event_id = event_id }

\* C15: when two concurrent incremental stores that both executed the INSERT
\* of a record with the same event_id, absent before, have ended, at most one
\* of them has inserted a row for it and the table holds exactly one row for
\* it.
ConcurrentRunsInsertOnce ==
    (\A r \in Procs : runs[r].pc = "done") =>
        \A e \in runs[1].keys \cap runs[2].keys :
            /\ ~(Existing(runs[1].ins, e) /\ Existing(runs[2].ins, e))
            /\ Cardinality(RowsWith(meetings, e)) = 1

\* C16: get_db_connection makes at most max_retries attempts with the fixed
\* delay between them; the first attempt that succeeds ends the loop and its
\* connection is yielded; after max_retries failed attempts the last error
\* is raised and no connection is yielded.
BoundedConnectionRetries ==
    /\ conn.attempts <= conn.max_retries
    /\ conn.pc = "loop" =>
          /\ conn.attempts = conn.retries /\ conn.retries < conn.max_retries
          /\ conn.slept = conn.retry_delay * conn.retries
    /\ conn.pc \in {"yielded", "closed"} =>
          /\ conn.attempts = conn.retries + 1
          /\ conn.slept = conn.retry_delay * conn.retries
    /\ (conn.pc = "raised" /\ conn.error # "ValueError") =>
          /\ conn.attempts = conn.max_retries
          /\ conn.retries = conn.max_retries
          /\ conn.slept = conn.retry_delay * (conn.max_retries - 1)
          /\ conn.error \in {"OperationalError", "Connection test failed"}

\* the third of three attempts has failed in the test query
BoundedConnectionRetriesWitness ==
    /\ conn.pc = "raised" /\ conn.max_retries = 3 /\ conn.attempts = 3
    /\ conn.retry_delay = DefaultRetryDelay /\ conn.slept = 20
    /\ conn.error = "Connection test failed"

\* C17: a record that fails in store_meetings_data is skipped alone and does
\* not abort the batch: every record the run counted as inserted is in the
\* table when the run has returned True.
FailedRecordSkippedAlone ==
    [][(last'.stored /\ last'.ok) =>
        Len(meetings') =
            (IF last'.op \in {"store_clear", "historical"} THEN 0
             ELSE Len(meetings)) + last'.inserted]_vars

\* C18: in every record of fetch_calendar_data each attendee is counted in
\* exactly one of the four response-status counters, so the four add up to
\* attendees_count.
EveryAttendeeCountedOnce ==
    \A m \in FetchedRecords :
        m.attendees_accepted + m.attendees_declined + m.attendees_tentative
            + m.attendees_needs_action = m.attendees_count

\* C19: every row of the table has is_one_on_one = (attendees_count = 2).
OneOnOneMatchesAttendeesCount ==
    \A i \in 1..Len(meetings) :
        meetings[i].is_one_on_one = (meetings[i].attendees_count = 2)

\* the meet_link the claim gives an item of the source
ClaimedMeetLink(event) ==
    IF event.hangoutLink # NoLink THEN event.hangoutLink
    ELSE IF \E i \in 1..Len(event.conferenceData) :
                event.conferenceData[i].entryPointType = "video"
         THEN LET first == CHOOSE i \in 1..Len(event.conferenceData) :
                       /\ event.conferenceData[i].entryPointType = "video"
                       /\ \A j \in 1..(i - 1) :
                             event.conferenceData[j].entryPointType # "video"
              IN  event.conferenceData[first].uri
         ELSE ""

\* C20: the meet_link of every record of fetch_calendar_data is the hangout
\* link of its source event when that is present, otherwise the uri of the
\* event's first video entry point, otherwise empty.
MeetLinkFromSourceEvent ==
    \A m \in FetchedRecords : \A e \in Events :
        (e.id = m.event_id /\ e.summary = m.summary) =>
            m.meet_link = ClaimedMeetLink(e)

\* the token cannot give a valid credential: there is none, it is unreadable,
\* or it is invalid and is not refreshed
NoValidCredential(token, refreshed) ==
    \/ token \in {NoFile, Corrupt}
    \/ /\ ~token.valid
       /\ ~(token.expired /\ token.refresh_token /\ refreshed)

\* C21: authenticate returns True and sets _authenticated only when a valid
\* credential is held, returns False with no token, an invalid token that
\* cannot be refreshed or a failed refresh, and get_events never raises and
\* returns an empty list when the object is not authenticated.
AuthenticatedOnlyWithValidCredential ==
    /\ svc._authenticated =>
          svc.credentials # None /\ svc.credentials.valid
    /\ (svc.call # "none" /\ NoValidCredential(svc.token, svc.refreshed)) =>
          ~svc._authenticated
    /\ svc.call = "authenticate" =>
          svc.returned = (IF svc._authenticated THEN "True" ELSE "False")
    /\ ~svc.raised
    /\ (svc.call = "get_events" /\ ~svc._authenticated) =>
          svc.returned = "list" /\ svc.events = <<>>

\* the schema scripts that set up or migrate the schema
SetupOps == {"init_database", "init_db_standalone", "update_schema", "init_db"}

\* the event_id column, a unique constraint on it and the three indexes of
\* update_schema exist
Migrated(s) ==
    /\ s.meetings /\ s.event_id /\ s.constraints # {}
    /\ {"idx_meetings_event_id", "idx_meetings_start_time",
        "idx_meetings_user_email"} \subseteq s.indexes

\* C22: whenever update_schema has returned success the event_id column, its
\* unique constraint and the event_id, start_time and user_email indexes all
\* exist, and running it again changes nothing and returns success again.
UpdateSchemaIdempotentAndComplete ==
    (ddl.op = "update_schema" /\ ddl.returned = "True") =>
        /\ Migrated(schema)
        /\ \A f \in 0..(1 + Len(UpdateSchemaStatements)), q \in BOOLEAN :
              /\ UpdateSchemaResult(schema, f, q).schema = schema
              /\ UpdateSchemaResult(schema, f, q).returned = "True"

\* C23: a schema initialization or migration run in which a DDL statement
\* failed reports the failure (it raises or returns False) and commits none
\* of its DDL changes.
SchemaSetupAllOrNothing ==
    [][(ddl'.op \in SetupOps /\ ddl'.failed) =>
        /\ ddl'.returned \in {"False", "raised"}
        /\ schema' = schema]_vars

\* C26: every schema initialization or migration run leaves the rows of the
\* meetings table as they are, and every incremental fetch leaves every
\* event_id of the table in it.
RowsSurviveSchemaSetup ==
    [][/\ (last' = last /\ ddl'.op \in SetupOps) => meetings' = meetings
       /\ (last' # last /\ last'.op = "incremental") =>
             \A i \in 1..Len(meetings) :
                HasEventId(meetings', meetings[i].event_id)]_vars

\* C24 as stated: a historical store on a table with rows that is killed after
\* its DELETE and before its commit leaves in the committed table what it had
\* written so far: the old rows are gone and only the records processed so
\* far are there.
KilledHistoricalStoreNotAtomic ==
    (stx.pc = "killed" /\ stx.clear_existing /\ ~stx.committed
        /\ stx.before # <<>>) =>
        meetings = stx.tx.rows

\* C24: the DELETE and the inserts of a historical store are one transaction:
\* killed before the commit, the store leaves the committed table as it was
\* before the call; killed after it, the table holds the rows of the batch.
KilledHistoricalStoreAtomic ==
    (stx.pc = "killed" /\ stx.clear_existing) =>
        IF stx.committed THEN meetings = stx.tx.rows /\ stx.todo = <<>>
        ELSE meetings = stx.before

\* a historical store on a table with rows is killed in its record loop
\* after one INSERT, and the table still has the old rows
KilledHistoricalStoreAtomicWitness ==
    /\ stx.pc = "killed" /\ stx.clear_existing /\ ~stx.committed
    /\ stx.before # <<>> /\ stx.todo # <<>>
    /\ stx.tx.inserted = 1 /\ stx.tx.rows # stx.before
    /\ meetings = stx.before

\* C28: in the record loop of store_meetings_data every record processed so
\* far is counted in exactly one of inserted, updated and skipped, so when the
\* loop finishes their sum is the number of records of the batch, in both
\* modes; in historical mode updated stays 0.
CountersCoverBatch ==
    stx.pc \in {"loop", "stats"} =>
        /\ stx.tx.inserted + stx.tx.updated + stx.tx.skipped
              = Len(stx.batch) - Len(stx.todo)
        /\ stx.pc = "stats" => stx.todo = <<>>
        /\ stx.clear_existing => stx.tx.updated = 0

\* a historical store of two records of one event_id has finished its loop
\* with one inserted and one skipped
CountersCoverBatchWitness ==
    /\ stx.pc = "stats" /\ stx.clear_existing /\ Len(stx.batch) = 2
    /\ stx.tx.inserted = 1 /\ stx.tx.skipped = 1 /\ ~stx.tx.aborted

\* C25: the UPDATE of an existing row in an incremental store leaves the row's
\* event_id, calendar_id, user_email and is_one_on_one as they were, sets its
\* summary, times, duration, attendee counts and meet_link from the record,
\* and leaves every other row and the number of rows unchanged.
UpdateChangesOnlyMutableFields ==
    [][(stx.pc = "loop" /\ stx'.pc = "loop"
        /\ stx'.tx.updated = stx.tx.updated + 1) =>
        LET meeting == Head(stx.todo)
            old == stx.tx.rows
            new == stx'.tx.rows
        IN  /\ Len(new) = Len(old)
            /\ \A i \in 1..Len(old) :
                  IF old[i].event_id = meeting.event_id
                  THEN /\ new[i].event_id = old[i].event_id
                       /\ new[i].calendar_id = old[i].calendar_id
                       /\ new[i].user_email = old[i].user_email
                       /\ new[i].is_one_on_one = old[i].is_one_on_one
                       /\ new[i].summary = meeting.summary
                       /\ new[i].start_time = meeting.start_time
                       /\ new[i].end_time = meeting.end_time
                       /\ new[i].duration_minutes = meeting.duration_minutes
                       /\ new[i].attendees_count = meeting.attendees_count
                       /\ new[i].meet_link = meeting.meet_link
                  ELSE new[i] = old[i]]_vars

\* an incremental store has updated one of two rows from a record whose
\* user_email and is_one_on_one differ from the row's
UpdateChangesOnlyMutableFieldsWitness ==
    /\ stx.pc = "stats" /\ ~stx.clear_existing /\ Len(stx.batch) = 1
    /\ stx.tx.updated = 1 /\ Len(stx.tx.rows) = 2
    /\ \E i \in 1..2 :
          /\ stx.tx.rows[i].event_id = stx.batch[1].event_id
          /\ stx.tx.rows[i].summary = stx.batch[1].summary
          /\ stx.tx.rows[i].user_email # stx.batch[1].user_email
          /\ stx.tx.rows[i].is_one_on_one # stx.batch[1].is_one_on_one
          /\ stx.before[i].summary # stx.batch[1].summary

\* C29: when store_meetings_data has returned False the committed table is
\* what it was before the call, and when it has returned True the writes of
\* the batch are committed.
ReturnReflectsCommit ==
    stx.pc = "returned" =>
        /\ stx.returned = "False" => meetings = stx.before
        /\ stx.returned = "True" => (stx.committed /\ meetings = stx.tx.rows)

\* C27: every iteration of the window loop of fetch_historical_data, whether
\* its fetch returns or raises, moves current_start forward, so that the
\* distance to end_date shrinks with every iteration and the loop ends.
EveryIterationAdvances ==
    [][(hpc = "loop" /\ current_batch' = current_batch + 1) =>
        /\ current_start' > current_start
        /\ end_date - current_start' < end_date - current_start]_vars

\* C30: of the connections a get_db_connection call has opened at most one
\* is open at any time, and none is open once its context has exited, by the
\* end of the with block or by the exception of the last failed attempt.
OpenedConnectionsClosed ==
    /\ conn.open <= 1
    /\ conn.pc \in {"closed", "raised"} => conn.open = 0

====
